---- MODULE Spec2Model ----
(***************************************************************************)
(* Sale-alert bot: durable sale queue (SqliteSaleRepository), rate         *)
(* governor (RateControl inside TwitterPublisher), posting workflow and     *)
(* orchestrator (BotService).  Timestamps are unix seconds.                 *)
(***************************************************************************)
EXTENDS Integers, Sequences, FiniteSets, TLC

\* ------------------------------------------------------------- bounds
\* MaxNow: last second of the repository's clock; MaxAttempts: failed
\* attempts followed per sale; MaxSlots, MaxBuffers: fallback slots and reset
\* buffers the governor's clock may advance by; MaxSent: post requests
\* followed; MaxCrashes: process deaths followed; MaxMinutes: minutes the
\* workflow's clock may advance by
MaxNow == 1
MaxAttempts == 1
MaxSlots == 1
MaxBuffers == 1
MaxSent == 17
MaxCrashes == 1
MaxMinutes == 1
MaxTens == 1
MaxEras == 1
MaxFailures == 6

\* SQL NULL of an INTEGER/TEXT column, JS undefined of an optional field
NULL == -9

\* the sales the feed can return
SaleIds == {1, 2}

\* the bot process alone; two processes opened on the same database file
Single == {"A"}
Claimants == {"A", "B"}

\* Sale.timestamp of the feed's sale: distinct sales, distinct creation times
Timestamp(id) == id

InProgress ==
    {"queued", "fetching_html", "capturing_frames", "rendering_video",
     "uploading_media", "posting"}

WorkflowStatus ==
    {"fetching_html", "capturing_frames", "rendering_video", "uploading_media"}

Statuses == InProgress \cup {"seen", "posted", "failed"}

VARIABLES
    now,        \* wall clock, unix()
    sales,      \* table sales: a set of rows
    pc,         \* per claimant: "idle", "selected" (SELECT done), "holding"
    sel,        \* per claimant: the row its SELECT returned
    claimAt,    \* per claimant: the `now` argument of its claimNextReady
    held,       \* per claimant: sale id its claimNextReady returned
    last,       \* the last repository call: operation, arguments, result
    rate,       \* meta row rate_state_post: the persisted RateState
    ppc,        \* TwitterPublisher.post: "idle", or "sending" (request in flight)
    sentCount,  \* post requests sent to the platform so far
    telemetrySeen,  \* some response carried parseable rate telemetry
    rlast,      \* the last governor call: time, stored state before, outcome
    bpc,        \* the bot process: where its startup or its pollOnce stands
    cur,        \* the QueuedSale postAvailable holds: sale id, attemptCount
    posts,      \* per sale: posts of it the platform has published
    lostAfterPost,  \* sales whose post succeeded when the process died
    crashes,    \* process deaths so far
    blast,      \* the last orchestrator call: what it met and what it did
    meta,       \* table meta: the keys initialized and last_prune_at
    polling,    \* BotService.polling, the reentrancy flag of pollOnce
    polls       \* bodies of pollOnce past the flag and not yet returned

storeVars == <<sales, pc, sel, claimAt, held, last>>

rateVars == <<rate, ppc, sentCount, telemetrySeen, rlast>>

botVars == <<bpc, cur, posts, lostAfterPost, crashes, blast, meta, polling,
             polls>>

vars == <<now, storeVars, rateVars, botVars>>

\* ------------------------------------------------------- sales table
\* a row as INSERT leaves it: unnamed columns take NULL / DEFAULT 0
NewRow(id, seenAt, enqueuedAt, nextAttemptAt, status) ==
    [sale_id |-> id, created_at |-> Timestamp(id), seen_at |-> seenAt,
     enqueued_at |-> enqueuedAt, posting_at |-> NULL, posted_at |-> NULL,
     status |-> status, tweet_id |-> NULL, tweet_text |-> NULL,
     next_attempt_at |-> nextAttemptAt, attempt_count |-> 0,
     html_path |-> NULL, frames_dir |-> NULL, video_path |-> NULL,
     media_id |-> NULL, metadata_json |-> NULL]

RowsOf(rows, id) == {r \in rows : r.sale_id = id}

IdsOf(rows) == {r.sale_id : r \in rows}

\* INSERT without the conflict clause: a second row for a known sale_id
InsertAlways(rows, row) == rows \cup {row}

\* INSERT OR IGNORE INTO sales: sale_id is the primary key
InsertOrIgnore(rows, row) ==
    IF \E r \in rows : r.sale_id = row.sale_id THEN rows ELSE rows \cup {row}

RECURSIVE seedSeen(_, _, _)
seedSeen(rows, batch, seenAt) ==
    IF batch = << >> THEN rows
    ELSE seedSeen(InsertOrIgnore(rows,
                      NewRow(Head(batch), seenAt, NULL, NULL, "seen")),
                  Tail(batch), seenAt)

\* sale.tokenId: the sales here are sales of one token
TokenOf(id) == 100

\* the cooldown every caller passes as the third argument, which the
\* method does not declare
TOKEN_COOLDOWN_HOURS == 24

\* result: the table and the number of rows whose insert changed it
RECURSIVE enqueueNew(_, _, _)
enqueueNew(rows, batch, seenAt) ==
    IF batch = << >> THEN [rows |-> rows, inserted |-> 0]
    ELSE LET after == InsertOrIgnore(rows,
                          NewRow(Head(batch), seenAt, seenAt, 0, "queued"))
             rest == enqueueNew(after, Tail(batch), seenAt)
         IN  [rows |-> rest.rows,
              inserted |-> rest.inserted + (IF after # rows THEN 1 ELSE 0)]

\* WHERE status IN (...) AND (next_attempt_at IS NULL OR next_attempt_at <= ?)
Ready(r, t) ==
    /\ r.status \in InProgress
    /\ (r.next_attempt_at = NULL \/ r.next_attempt_at <= t)

\* claimNextReady, the SELECT ... ORDER BY created_at ASC LIMIT 1
claimSelect(rows, t) ==
    {r \in rows : /\ Ready(r, t)
                  /\ \A q \in rows : Ready(q, t) => r.created_at <= q.created_at}

\* claimNextReady, the UPDATE ... SET posting_at=? WHERE sale_id=? AND <filter>
claimUpdate(rows, id, t) ==
    {IF r.sale_id = id /\ Ready(r, t) THEN [r EXCEPT !.posting_at = t] ELSE r
       : r \in rows}

claimChanges(rows, id, t) == Cardinality({r \in rows : r.sale_id = id /\ Ready(r, t)})

\* the two times of the attempt stay in the row
markPostedKeepingTimes(rows, id, tweetId, tweetText, postedAt) ==
    {IF r.sale_id = id
       THEN [r EXCEPT !.status = "posted", !.posted_at = postedAt,
                      !.tweet_id = tweetId, !.tweet_text = tweetText]
       ELSE r : r \in rows}

markPosted(rows, id, tweetId, tweetText, postedAt) ==
    {IF r.sale_id = id
       THEN [r EXCEPT !.status = "posted", !.posted_at = postedAt,
                      !.tweet_id = tweetId, !.tweet_text = tweetText,
                      !.posting_at = NULL, !.next_attempt_at = NULL]
       ELSE r : r \in rows}

\* a deferral counted as an attempt
requeueCounted(rows, id, nextAttemptAt) ==
    {IF r.sale_id = id
       THEN [r EXCEPT !.posting_at = NULL, !.next_attempt_at = NULL,
                      !.attempt_count = r.attempt_count + 1]
       ELSE r : r \in rows}

\* the implementation takes the sale id alone: a second argument is dropped
requeueAfterRateLimit(rows, id, nextAttemptAt) ==
    {IF r.sale_id = id
       THEN [r EXCEPT !.posting_at = NULL, !.next_attempt_at = NULL]
       ELSE r : r \in rows}

scheduleRetry(rows, id, nextAttemptAt) ==
    {IF r.sale_id = id
       THEN [r EXCEPT !.posting_at = NULL, !.next_attempt_at = nextAttemptAt,
                      !.attempt_count = r.attempt_count + 1]
       ELSE r : r \in rows}

updateStatus(rows, id, status) ==
    {IF r.sale_id = id THEN [r EXCEPT !.status = status] ELSE r : r \in rows}

listStalePosting(rows, cutoff) ==
    {r \in rows : r.status = "posting" /\ r.posting_at # NULL /\ r.posting_at < cutoff}

requeueStale(rows, id, nextAttemptAt) ==
    {IF r.sale_id = id
       THEN [r EXCEPT !.status = "queued", !.posting_at = NULL,
                      !.next_attempt_at = nextAttemptAt]
       ELSE r : r \in rows}

\* ------------------------------------------------------ rate governor
LIMIT == 17
RESERVE == 1
RESET_BUFFER_SEC == 60
WINDOW_SEC == 86400

\* Math.ceil(86400 / ENDPOINT_CONFIG.post.limit)
FALLBACK_SLOT_SEC == (WINDOW_SEC + LIMIT - 1) \div LIMIT

Max(a, b) == IF a >= b THEN a ELSE b

\* JS truthiness of an optional number: neither undefined nor 0
Truthy(x) == x # NULL /\ x # 0

\* x ?? d
OrElse(x, d) == IF x = NULL THEN d ELSE x

\* load() of a database without the meta row: {}
NoState ==
    [limit |-> NULL, remaining |-> NULL, reset |-> NULL, lastSpentAt |-> NULL,
     storedAt |-> NULL]

\* numbers pass, remaining is clamped at 0 from below
sanitize(state) ==
    [state EXCEPT !.remaining = IF @ = NULL THEN NULL ELSE Max(0, @)]

load(stored) == sanitize(stored)

\* a response body or error as parseRate reads it: its direct properties
NoRaw == [limit |-> NULL, remaining |-> NULL, reset |-> NULL]

\* the parsed RateState in a sequence of one, << >> for null
parseRate(raw) ==
    IF raw.limit # NULL /\ raw.remaining # NULL
      THEN <<sanitize([limit |-> raw.limit, remaining |-> raw.remaining,
                       reset |-> raw.reset, lastSpentAt |-> NULL,
                       storedAt |-> NULL])>>
      ELSE << >>

\* the reset is left in place: the allowance is never restored
loadNoRefresh(stored, t) == [state |-> load(stored), stored |-> stored]

\* result: the state handed to the caller and the meta row afterwards
loadAndRefresh(stored, t) ==
    LET state == load(stored)
        refreshed == [limit |-> OrElse(state.limit, LIMIT),
                      remaining |-> OrElse(state.limit, LIMIT),
                      reset |-> NULL,
                      lastSpentAt |-> state.lastSpentAt,
                      storedAt |-> t]
    IN  IF Truthy(state.reset) /\ t >= state.reset
          THEN [state |-> refreshed,
                stored |-> IF state.remaining # refreshed.remaining
                             THEN refreshed ELSE stored]
          ELSE [state |-> state, stored |-> stored]

\* the last slot is spent too
BlockedBelow(remaining) == remaining < RESERVE

\* if (remaining <= cfg.reserve)
Blocked(remaining) == remaining <= RESERVE

\* `const safeReset = resetAt + RESET_BUFFER_SEC`
withoutBuffer(resetAt) == resetAt
withBuffer(resetAt) == resetAt + RESET_BUFFER_SEC

\* result: threw, the state returned, the error's resetAt/remaining/limit,
\* and the meta row afterwards
guard(stored, t) ==
    LET lr == loadAndRefresh(stored, t)
        state == lr.state
        limit == OrElse(state.limit, LIMIT)
        remaining == OrElse(state.remaining, limit)
        lastSpent == OrElse(state.lastSpentAt, t)
        synthetic == ~Truthy(state.reset) \/ state.reset <= t
        resetAt == IF synthetic
                     THEN Max(lastSpent + FALLBACK_SLOT_SEC, t + FALLBACK_SLOT_SEC)
                     ELSE state.reset
        safeReset == withBuffer(resetAt)
    IN  IF Blocked(remaining)
          THEN [threw |-> TRUE, state |-> state, resetAt |-> safeReset,
                remaining |-> remaining, limit |-> limit,
                stored |-> IF synthetic
                             THEN [state EXCEPT !.remaining = remaining,
                                                !.reset = safeReset,
                                                !.lastSpentAt = lastSpent,
                                                !.storedAt = t]
                             ELSE lr.stored]
          ELSE [threw |-> FALSE, state |-> state, resetAt |-> NULL,
                remaining |-> remaining, limit |-> limit, stored |-> lr.stored]

decrement(state, fallbackLimit) ==
    LET limit == OrElse(state.limit, fallbackLimit)
    IN  [state EXCEPT !.limit = limit,
                      !.remaining = IF state.remaining # NULL
                                      THEN Max(0, state.remaining - 1)
                                      ELSE limit - 1]

\* info ? {limit, remaining, reset from info, lastSpentAt: now, storedAt: now}
FromInfo(info, t) ==
    [limit |-> info.limit, remaining |-> info.remaining, reset |-> info.reset,
     lastSpentAt |-> t, storedAt |-> t]

\* result: the state loaded (current) and the state saved and returned (next)
onSuccess(stored, raw, t) ==
    LET info == parseRate(raw)
        current == loadAndRefresh(stored, t).state
    IN  [current |-> current,
         next |-> IF info # << >>
                    THEN FromInfo(info[1], t)
                    ELSE [decrement(current, LIMIT) EXCEPT !.lastSpentAt = t,
                                                           !.storedAt = t]]

\* an error without rate fields leaves the allowance as it was
onErrorKeeping(stored, raw, t) ==
    LET info == parseRate(raw)
        current == loadAndRefresh(stored, t).state
    IN  [current |-> current,
         next |-> IF info # << >>
                    THEN FromInfo(info[1], t)
                    ELSE [current EXCEPT !.lastSpentAt = t, !.storedAt = t]]

onError(stored, raw, t) ==
    LET info == parseRate(raw)
        current == loadAndRefresh(stored, t).state
    IN  [current |-> current,
         next |-> IF info # << >>
                    THEN FromInfo(info[1], t)
                    ELSE [current EXCEPT
                            !.remaining = 0,
                            !.reset = IF Truthy(current.reset) /\ current.reset > t
                                        THEN current.reset
                                        ELSE t + FALLBACK_SLOT_SEC,
                            !.lastSpentAt = t,
                            !.storedAt = t]]

\* the last governor call
RateCall(op, before, threw, state, resetAt) ==
    [op |-> op, at |-> now, before |-> before, threw |-> threw,
     state |-> state, resetAt |-> resetAt, raw |-> NoRaw]

\* the last call of onSuccess or onError, with the rate fields it was given
RateCallOn(op, before, raw, state) ==
    [RateCall(op, before, FALSE, state, NULL) EXCEPT !.raw = raw]

RateInitAt(stored) ==
    /\ rate = stored
    /\ ppc = "idle"
    /\ sentCount = 0
    /\ telemetrySeen = FALSE
    /\ rlast = RateCall("none", NoState, FALSE, NoState, NULL)

\* row: the artifacts columns as the claim's SELECT returned them, {} once
\* process() has read them
NoSale == [id |-> NULL, attemptCount |-> 0, pollNow |-> NULL, row |-> {}]

\* table meta: getMetaNumber reads an absent key as 0
Meta(initialized, lastPruneAt) ==
    [initialized |-> initialized, last_prune_at |-> lastPruneAt]

\* the last orchestrator call: its unix() where it reads one, the sale or
\* the arguments it was given, the rows and the meta table it met, what its
\* fetch returned, the producer steps or the repository calls it made
BotCall(op, at, id, before, got, ran, calls) ==
    [op |-> op, at |-> at, id |-> id, before |-> before, meta |-> meta,
     got |-> got, ran |-> ran, calls |-> calls]

NoCall ==
    [op |-> "none", at |-> NULL, id |-> NULL, before |-> {},
     meta |-> Meta(FALSE, 0), got |-> {}, ran |-> {}, calls |-> {}]

\* a process at `at` of its start-up, over a store whose meta table is m
ProcessAt(at, m) ==
    /\ bpc = at
    /\ cur = NoSale
    /\ lostAfterPost = {}
    /\ crashes = 0
    /\ blast = NoCall
    /\ meta = m
    /\ polling = FALSE
    /\ polls = 0

BotInitAt(at) ==
    /\ ProcessAt(at, Meta(FALSE, 0))
    /\ posts = [id \in SaleIds |-> 0]

\* -------------------------------------------- workflow and orchestrator
STALE_POSTING_SEC == 120
POLL_INTERVAL_SEC == 30
RATE_RESET_BUFFER == 5
MAX_BACKOFF_SEC == 1800
MAX_BASE_DELAY == 7200

Min(a, b) == IF a <= b THEN a ELSE b

RECURSIVE Pow2(_)
Pow2(n) == IF n <= 0 THEN 1 ELSE 2 * Pow2(n - 1)

\* Math.min(30 * 60, 2^attempts * 60 || 60)
backoffUncapped(attempts) == Pow2(attempts) * 60
computeBackoffSeconds(attempts) == Min(MAX_BACKOFF_SEC, Pow2(attempts) * 60)

\* the reported reset and the buffer alone, whatever the attempts
resetPlusBuffer(info, attempts, t) ==
    IF Truthy(info.reset) /\ info.reset > t
      THEN info.reset + RATE_RESET_BUFFER
      ELSE t + POLL_INTERVAL_SEC

\* info: the reset/remaining/limit of a snapshot or of the error caught
computeRateReset(info, attempts, t) ==
    LET baseDelay == Min(Max(1, Pow2(attempts)), MAX_BASE_DELAY)
        slot == IF Truthy(info.limit) /\ info.limit > 0
                  THEN (WINDOW_SEC + info.limit - 1) \div info.limit
                  ELSE POLL_INTERVAL_SEC
    IN  IF Truthy(info.reset) /\ info.reset > t
          THEN Max(t + baseDelay, info.reset + RATE_RESET_BUFFER)
          ELSE t + Max(baseDelay, slot)

\* the producer steps of process(), in order: html, frames, video, metadata,
\* media upload
Stages == 1..5

StageStatus(k) ==
    CASE k = 1 -> "fetching_html"
      [] k = 2 -> "capturing_frames"
      [] k = 3 -> "rendering_video"
      [] k = 5 -> "uploading_media"
      [] OTHER -> NULL

\* every producer runs, whatever the claim returned
StageAlways(r, k) == TRUE

\* `if (existing) return existing` on the claimed artifacts; a stored media id
\* has no upload time to vouch for it and is uploaded again
StageNeeded(r, k) ==
    CASE k = 1 -> r.html_path = NULL
      [] k = 2 -> r.frames_dir = NULL
      [] k = 3 -> r.video_path = NULL
      [] k = 4 -> r.metadata_json = NULL
      [] OTHER -> TRUE

\* updateStatus at the start of a step (ensureMetadata records none)
StageStart(r, k) ==
    IF k = 4 THEN r ELSE [r EXCEPT !.status = StageStatus(k)]

\* the setter at the end of a step
StageDone(r, k) ==
    CASE k = 1 -> [r EXCEPT !.html_path = 1]
      [] k = 2 -> [r EXCEPT !.frames_dir = 1]
      [] k = 3 -> [r EXCEPT !.video_path = 1]
      [] k = 4 -> [r EXCEPT !.metadata_json = 1]
      [] OTHER -> [r EXCEPT !.media_id = 1]

\* the row after the steps from k on, decided on the claimed artifacts, the
\* step failAt throwing (0: none does)
RECURSIVE runStages(_, _, _, _)
runStages(r, claimed, k, failAt) ==
    IF k > 5 THEN r
    ELSE IF ~StageNeeded(claimed, k) THEN runStages(r, claimed, k + 1, failAt)
    ELSE IF k = failAt THEN StageStart(r, k)
    ELSE runStages(StageDone(StageStart(r, k), k), claimed, k + 1, failAt)

produce(rows, id, claimed, failAt) ==
    {IF r.sale_id = id THEN runStages(r, claimed, 1, failAt) ELSE r : r \in rows}

\* the producers process() invokes: every needed step up to the failing one
stagesRun(claimed, failAt) ==
    {k \in Stages : StageNeeded(claimed, k) /\ (failAt = 0 \/ k <= failAt)}

\* DELETE every row older than the cutoff, whatever its status
deleteAnyOld(rows, cutoff) ==
    {r \in rows :
        ~(OrElse(r.posted_at, OrElse(r.seen_at, r.created_at)) < cutoff)}

\* DELETE the terminal rows older than the cutoff
deleteOld(rows, cutoff) ==
    {r \in rows :
        ~(/\ r.status \in {"posted", "failed", "seen"}
          /\ OrElse(r.posted_at, OrElse(r.seen_at, r.created_at)) < cutoff)}

\* `if (last && now - last < minInterval) return`
PruneAlways(lastPrune, t, minInterval) == FALSE
PruneSkipped(lastPrune, t, minInterval) ==
    lastPrune # 0 /\ t - lastPrune < minInterval

\* the rows and the meta table after pruneOld(cutoff, now, minInterval)
pruneOld(rows, m, cutoff, t, minInterval) ==
    IF PruneSkipped(m.last_prune_at, t, minInterval)
      THEN [rows |-> rows, meta |-> m]
      ELSE [rows |-> deleteOld(rows, cutoff),
            meta |-> [m EXCEPT !.last_prune_at = t]]

PRUNE_DAYS == 30
PRUNE_INTERVAL_HOURS == 6

pruneIfNeeded(rows, m, t) ==
    pruneOld(rows, m, t - PRUNE_DAYS * 24 * 3600, t,
             PRUNE_INTERVAL_HOURS * 3600)

\* recoverInFlight's loop: a stale sale whose post is on the fetched timeline
\* is marked posted with that post, any other is requeued a minute ahead
\* a sale sold and announced before the sales of the feed: the same token at
\* the same price and side as sale 1
EarlierSales == {0}

\* a post's text as far as `find` tells posts apart: token, price and side of
\* the sale it announces
TextOf(id) == IF id \in EarlierSales THEN 1 ELSE id

\* the repository call a stale sale is answered with, whatever the timeline
RepoCall(op, id, tweetId, text, t) ==
    [op |-> op, id |-> id, tweetId |-> tweetId, text |-> text, t |-> t]

\* `if (found) markPosted(sale.id, found.id, found.text, unix())
\*  else requeueStale(sale.id, unix() + 60)`; found: tweet id or NULL
recoverAlwaysRequeue(id, found, t) ==
    RepoCall("requeueStale", id, NULL, NULL, t + 60)

recoverCall(id, found, t) ==
    IF found # NULL
      THEN RepoCall("markPosted", id, found, TextOf(id), t)
      ELSE RepoCall("requeueStale", id, NULL, NULL, t + 60)

applyCall(rows, c) ==
    IF c.op = "markPosted"
      THEN markPosted(rows, c.id, c.tweetId, c.text, c.t)
      ELSE requeueStale(rows, c.id, c.t)

RECURSIVE recoverEach(_, _)
recoverEach(rows, calls) ==
    IF calls = {} THEN rows
    ELSE LET c == CHOOSE x \in calls : TRUE
         IN  recoverEach(applyCall(rows, c), calls \ {c})

\* ------------------------------------------- repository under claimants
\* feed pages: no sale, one, or two, a sale possibly listed twice
Batches == UNION {[1..n -> SaleIds] : n \in 0..Cardinality(SaleIds)}

\* the last repository call: sale id or batch it was given, time argument,
\* returned value, and the rows it addressed as they were before the call
Call(op, id, batch, t, val, before) ==
    [op |-> op, id |-> id, batch |-> batch, t |-> t, val |-> val,
     before |-> before]

CallersIdle(cs) ==
    /\ pc = [c \in cs |-> "idle"]
    /\ sel = [c \in cs |-> NULL]
    /\ claimAt = [c \in cs |-> NULL]
    /\ held = [c \in cs |-> NULL]
    /\ last = Call("none", NULL, << >>, NULL, NULL, {})

StoreInitFor(cs) ==
    /\ now = 0
    /\ sales = {}
    /\ CallersIdle(cs)

Tick ==
    /\ now < MaxNow
    /\ now' = now + 1
    /\ UNCHANGED <<sales, pc, sel, claimAt, held, last>>
    /\ UNCHANGED <<rateVars, botVars>>

SeedSeen ==
    \E batch \in Batches :
        /\ sales' = seedSeen(sales, batch, now)
        /\ last' = Call("seedSeen", NULL, batch, now, NULL, sales)
        /\ UNCHANGED <<now, pc, sel, claimAt, held, rateVars, botVars>>

EnqueueNew ==
    \E batch \in Batches :
        LET res == enqueueNew(sales, batch, now)
        IN  /\ sales' = res.rows
            /\ last' = Call("enqueueNew", NULL, batch, now, res.inserted,
                            sales)
            /\ UNCHANGED <<now, pc, sel, claimAt, held, rateVars, botVars>>

\* claimNextReady(now), first statement; `if (!row) return null`
ClaimRead(c) ==
    /\ pc[c] = "idle"
    /\ IF claimSelect(sales, now) = {}
         THEN /\ last' = Call("claimNextReady", NULL, << >>, now, NULL, {})
              /\ UNCHANGED <<pc, sel, claimAt>>
         ELSE \E r \in claimSelect(sales, now) :
                /\ pc' = [pc EXCEPT ![c] = "selected"]
                /\ sel' = [sel EXCEPT ![c] = r.sale_id]
                /\ claimAt' = [claimAt EXCEPT ![c] = now]
                /\ UNCHANGED last
    /\ UNCHANGED <<now, sales, held>>
    /\ UNCHANGED <<rateVars, botVars>>

\* claimNextReady(now), second statement; `if (updated.changes === 0) return null`
ClaimWrite(c) ==
    /\ pc[c] = "selected"
    /\ sales' = claimUpdate(sales, sel[c], claimAt[c])
    /\ IF claimChanges(sales, sel[c], claimAt[c]) = 0
         THEN /\ pc' = [pc EXCEPT ![c] = "idle"]
              /\ held' = held
              /\ last' = Call("claimNextReady", NULL, << >>, claimAt[c], NULL, {})
         ELSE /\ pc' = [pc EXCEPT ![c] = "holding"]
              /\ held' = [held EXCEPT ![c] = sel[c]]
              /\ last' = Call("claimNextReady", NULL, << >>, claimAt[c], sel[c],
                              RowsOf(sales, sel[c]))
    /\ sel' = [sel EXCEPT ![c] = NULL]
    /\ claimAt' = [claimAt EXCEPT ![c] = NULL]
    /\ UNCHANGED now
    /\ UNCHANGED <<rateVars, botVars>>

\* claimNextReady(now) run to completion: the driver is synchronous, so inside
\* one process nothing comes between its two statements
ClaimNextReady(c) ==
    /\ pc[c] = "idle"
    /\ IF claimSelect(sales, now) = {}
         THEN /\ last' = Call("claimNextReady", NULL, << >>, now, NULL, {})
              /\ UNCHANGED <<sales, pc, held>>
         ELSE \E r \in claimSelect(sales, now) :
                /\ sales' = claimUpdate(sales, r.sale_id, now)
                /\ IF claimChanges(sales, r.sale_id, now) = 0
                     THEN /\ last' = Call("claimNextReady", NULL, << >>, now, NULL, {})
                          /\ UNCHANGED <<pc, held>>
                     ELSE /\ pc' = [pc EXCEPT ![c] = "holding"]
                          /\ held' = [held EXCEPT ![c] = r.sale_id]
                          /\ last' = Call("claimNextReady", NULL, << >>, now,
                                          r.sale_id, {r})
    /\ UNCHANGED <<now, sel, claimAt>>
    /\ UNCHANGED <<rateVars, botVars>>

\* the workflow of the holder records its step
UpdateStatus(c) ==
    \E st \in WorkflowStatus :
        /\ pc[c] = "holding"
        /\ sales' = updateStatus(sales, held[c], st)
        /\ last' = Call("updateStatus", held[c], << >>, NULL, NULL,
                        RowsOf(sales, held[c]))
        /\ UNCHANGED <<now, pc, sel, claimAt, held, rateVars, botVars>>

\* the holder is done with the sale it was given
Release(c) ==
    /\ pc' = [pc EXCEPT ![c] = "idle"]
    /\ held' = [held EXCEPT ![c] = NULL]
    /\ UNCHANGED <<now, sel, claimAt>>
    /\ UNCHANGED <<rateVars, botVars>>

\* the platform's identifier of the n-th post of a sale
TweetId(id, n) == 10 * id + n

\* markPosted(saleId, tweet.id, tweet.text, now()) of the holder; the text
\* stands for the sale it was composed from
MarkPosted(c) ==
    /\ pc[c] = "holding"
    /\ sales' = markPosted(sales, held[c], TweetId(held[c], 1), held[c], now)
    /\ last' = Call("markPosted", held[c], << >>, now, TweetId(held[c], 1),
                    RowsOf(sales, held[c]))
    /\ Release(c)

\* callers pass now + backoff, or the governor's reset: a time after now
RetryTimes == {now + 1}

AttemptsOf(rows, id) == CHOOSE n \in {r.attempt_count : r \in RowsOf(rows, id)} : TRUE

ScheduleRetry(c) ==
    \E t \in RetryTimes :
        /\ pc[c] = "holding"
        /\ AttemptsOf(sales, held[c]) < MaxAttempts
        /\ sales' = scheduleRetry(sales, held[c], t)
        /\ last' = Call("scheduleRetry", held[c], << >>, t, NULL,
                        RowsOf(sales, held[c]))
        /\ Release(c)

RequeueAfterRateLimit(c) ==
    \E t \in RetryTimes :
        /\ pc[c] = "holding"
        /\ sales' = requeueAfterRateLimit(sales, held[c], t)
        /\ last' = Call("requeueAfterRateLimit", held[c], << >>, t, NULL,
                        RowsOf(sales, held[c]))
        /\ Release(c)

StoreNext ==
    \/ Tick
    \/ SeedSeen
    \/ EnqueueNew
    \/ \E c \in DOMAIN pc : ClaimNextReady(c)
    \/ \E c \in DOMAIN pc : UpdateStatus(c)
    \/ \E c \in DOMAIN pc : MarkPosted(c)
    \/ \E c \in DOMAIN pc : ScheduleRetry(c)
    \/ \E c \in DOMAIN pc : RequeueAfterRateLimit(c)

\* the repository as the one bot process drives it
\* the table after migrations, one caller, governor and bot at rest
StoreInit ==
    /\ StoreInitFor(Single)
    /\ RateInitAt(NoState)
    /\ BotInitAt("off")

StoreSpec == StoreInit /\ [][StoreNext]_vars

RaceNext ==
    \/ EnqueueNew
    \/ \E c \in DOMAIN pc : ClaimRead(c)
    \/ \E c \in DOMAIN pc : ClaimWrite(c)
    \/ \E c \in DOMAIN pc : MarkPosted(c)
    \/ \E c \in DOMAIN pc : RequeueAfterRateLimit(c)

\* two claimants on one database, statements interleaved
\* the same table shared by two callers
RaceInit ==
    /\ StoreInitFor(Claimants)
    /\ RateInitAt(NoState)
    /\ BotInitAt("off")

RaceSpec == RaceInit /\ [][RaceNext]_vars

\* ------------------------------------------ publisher over the governor
\* instants the governor's arithmetic lands on
Clock ==
    {a * FALLBACK_SLOT_SEC + b * RESET_BUFFER_SEC :
        a \in 0..MaxSlots, b \in 0..MaxBuffers}

\* rate fields a response may carry
RawRates ==
    {[limit |-> l, remaining |-> r, reset |-> now + d] :
        l \in {RESERVE, LIMIT}, r \in {0, RESERVE + 1},
        d \in {RESET_BUFFER_SEC, FALLBACK_SLOT_SEC}} \cup {NoRaw}

Advance ==
    /\ \E t \in Clock : t > now /\ now' = t
    /\ UNCHANGED <<storeVars, rateVars, botVars>>

\* TwitterPublisher.post up to the request: guard, and when guard throws the
\* catch block (onError with an error that carries no rate fields, rethrow)
PostGuard ==
    LET g == guard(rate, now)
    IN  /\ ppc = "idle"
        /\ sentCount < MaxSent
        /\ rlast' = RateCall("guard", rate, g.threw, g.state, g.resetAt)
        /\ IF g.threw
             THEN /\ rate' = onError(g.stored, NoRaw, now).next
                  /\ UNCHANGED <<ppc, sentCount>>
             ELSE /\ rate' = g.stored
                  /\ ppc' = "sending"
                  /\ sentCount' = sentCount + 1
        /\ UNCHANGED <<now, storeVars, botVars, telemetrySeen>>

\* the request returned: onSuccess with the response's rate fields
PostOk(raws) ==
    \E raw \in raws :
        LET res == onSuccess(rate, raw, now)
        IN  /\ ppc = "sending"
            /\ rate' = res.next
            /\ ppc' = "idle"
            /\ telemetrySeen' = (telemetrySeen \/ parseRate(raw) # << >>)
            /\ rlast' = RateCallOn("onSuccess", rate, raw, res.current)
            /\ UNCHANGED <<now, storeVars, botVars, sentCount>>

\* the request failed: the catch block's onError with the error's rate fields
PostFail(raws) ==
    \E raw \in raws :
        LET res == onError(rate, raw, now)
        IN  /\ ppc = "sending"
            /\ rate' = res.next
            /\ ppc' = "idle"
            /\ telemetrySeen' = (telemetrySeen \/ parseRate(raw) # << >>)
            /\ rlast' = RateCallOn("onError", rate, raw, res.current)
            /\ UNCHANGED <<now, storeVars, botVars, sentCount>>

\* TwitterPublisher.checkRateLimit: the governor's snapshot
CheckRateLimit ==
    LET lr == loadAndRefresh(rate, now)
    IN  /\ rate' = lr.stored
        /\ rlast' = RateCall("snapshot", rate, FALSE, lr.state, NULL)
        /\ UNCHANGED <<now, storeVars, botVars, ppc, sentCount, telemetrySeen>>

RateNext ==
    \/ Advance
    \/ PostGuard
    \/ PostOk(RawRates)
    \/ PostFail(RawRates)
    \/ CheckRateLimit

\* a publisher constructed over an empty rate_limits table
RateInit ==
    /\ StoreInitFor(Single)
    /\ RateInitAt(NoState)
    /\ BotInitAt("off")

RateSpec == RateInit /\ [][RateNext]_vars

\* the governor under responses whose limit field is below zero
SignedRaws ==
    {[limit |-> 0 - RESERVE, remaining |-> r, reset |-> now + RESET_BUFFER_SEC] :
        r \in {0, RESERVE + 1}} \cup {NoRaw}

SignedNext ==
    \/ Advance
    \/ PostGuard
    \/ PostOk(SignedRaws)
    \/ PostFail(SignedRaws)
    \/ CheckRateLimit

SignedSpec == RateInit /\ [][SignedNext]_vars

\* ------------------------------------------------------ the bot process
\* the governor row a starting process may find: none, or the one fifteen
\* posts without telemetry leave behind
BootRates ==
    {NoState,
     [limit |-> LIMIT, remaining |-> RESERVE + 1, reset |-> NULL,
      lastSpentAt |-> 0, storedAt |-> 0]}

\* rate fields the platform's responses carry in the bot's runs
BotRaws ==
    {NoRaw, [limit |-> LIMIT, remaining |-> 0, reset |-> now + FALLBACK_SLOT_SEC]}

BotInit ==
    /\ StoreInitFor(Single)
    /\ \E stored \in BootRates : RateInitAt(stored)
    /\ BotInitAt("boot")

\* pollOnce after postAvailable returned: pruneIfNeeded(now), the finally block
EndPoll(rows) ==
    LET pruned == pruneIfNeeded(rows, meta, cur.pollNow)
    IN  /\ sales' = pruned.rows
        /\ meta' = pruned.meta
        /\ bpc' = "idle"
        /\ cur' = NoSale
        /\ polling' = FALSE
        /\ polls' = polls - 1

\* a step inside pollOnce, or outside it, that leaves its flag alone
InPoll == UNCHANGED <<meta, polling, polls>>

BotFrame == UNCHANGED <<now, pc, sel, claimAt, held, last, ppc, sentCount,
                        telemetrySeen, rlast, crashes, lostAfterPost>>

\* recoverInFlight; fetchRecent answers [] when the timeline cannot be read
\* the history of orchestrator calls is kept where a property reads it
Keep(kept, call) == blast' = IF kept THEN call ELSE blast

\* the posts of the account's timeline, most recent first per sale
Timeline == {id \in SaleIds : posts[id] > 0}

\* the posts of the account as fetchRecent lists them: its own posts of the
\* sales, possibly with the post of the earlier sale behind them
Timelines == {Timeline, Timeline \cup EarlierSales}

\* the platform's identifier of the post that announces sale p
PostOf(p) == TweetId(p, IF p \in SaleIds THEN posts[p] ELSE 1)

\* tweets.find(...) over the fetched posts, most recent first: the id of the
\* first post whose text is the expected one or holds token, price and side
FindPost(fetched, id) ==
    LET matching == {p \in fetched : TextOf(p) = TextOf(id)}
    IN  IF id \in matching THEN PostOf(id)
        ELSE IF matching # {} THEN PostOf(CHOOSE p \in matching : TRUE)
        ELSE NULL

\* `if (this.deps.repo.isInitialized()) return`
neverInitialized(m) == FALSE
isInitialized(m) == m.initialized

\* bootstrapIfNeeded: on a store not yet initialized the feed is fetched,
\* seeded as seen, and the store is marked
BotBootstrap(kept) ==
    /\ bpc = "boot"
    /\ IF isInitialized(meta)
         THEN /\ Keep(kept, BotCall("bootstrapIfNeeded", now, NULL, sales,
                                    {}, {}, {}))
              /\ UNCHANGED <<sales, meta>>
         ELSE \E batch \in Batches :
                /\ sales' = seedSeen(sales, batch, now)
                /\ meta' = [meta EXCEPT !.initialized = TRUE]
                /\ Keep(kept, BotCall("bootstrapIfNeeded", now, NULL, sales,
                                      {batch}, {},
                                      {"fetchRecent", "seedSeen",
                                       "markInitialized"}))
    /\ bpc' = "recover"
    /\ BotFrame
    /\ UNCHANGED <<rate, cur, posts, polling, polls>>

BotRecover(kept) ==
    LET stale == {r.sale_id :
                    r \in listStalePosting(sales, now - STALE_POSTING_SEC)}
    IN  /\ bpc = "recover"
        /\ \E fetched \in IF stale = {} THEN {{}} ELSE Timelines \cup {{}} :
              LET calls == {recoverCall(id, FindPost(fetched, id), now) :
                              id \in stale}
              IN  /\ sales' = recoverEach(sales, calls)
                  /\ Keep(kept, BotCall("recoverInFlight", now, NULL, sales,
                                        fetched, {}, calls))
        /\ bpc' = "idle"
        /\ BotFrame
        /\ InPoll
        /\ UNCHANGED <<rate, cur, posts>>

\* where the timer may call pollOnce: the process is past its start-up
Ticking == {"idle", "loop", "claimed", "produce", "post", "sending", "posted"}

\* `if (this.polling) return`
NeverReentered == FALSE
Reentered == polling

\* a tick while a poll is running: pollOnce returns at once
BotPollSkip(kept) ==
    /\ bpc \in Ticking
    /\ Reentered
    /\ Keep(kept, BotCall("pollOnce", now, NULL, sales, {}, {}, {}))
    /\ BotFrame
    /\ InPoll
    /\ UNCHANGED <<sales, rate, bpc, cur, posts>>

\* `finally { this.polling = false }`
flagStuck == TRUE
flagCleared == FALSE

\* pollOnce whose feed.fetchRecent throws: the flag is set, the exception
\* leaves through the finally block, nothing is enqueued or claimed
BotPollAbort(kept) ==
    /\ bpc \in Ticking
    /\ ~Reentered
    /\ polling' = flagCleared
    /\ Keep(kept, BotCall("pollOnce", now, NULL, sales, {}, {},
                          {"fetchRecent"}))
    /\ BotFrame
    /\ UNCHANGED <<sales, rate, bpc, cur, posts, meta, polls>>

\* pollOnce up to postAvailable: the flag is set, the feed page is enqueued
BotPollBegin(kept) ==
    \E batch \in Batches :
        /\ bpc \in Ticking
        /\ ~Reentered
        /\ polling' = TRUE
        /\ polls' = polls + 1
        /\ sales' = enqueueNew(sales, batch, now).rows
        /\ Keep(kept, BotCall("pollOnce", now, NULL, sales, {batch}, {},
                              {"fetchRecent", "enqueueNew"}))
        /\ cur' = [NoSale EXCEPT !.pollNow = now]
        /\ bpc' = "loop"
        /\ BotFrame
        /\ UNCHANGED <<rate, posts, meta>>

\* postAvailable: claimNextReady(unix()), `if (!queued) break`
BotClaim ==
    /\ bpc = "loop"
    /\ IF claimSelect(sales, now) = {}
         THEN EndPoll(sales)
         ELSE \E r \in claimSelect(sales, now) :
                IF claimChanges(sales, r.sale_id, now) = 0
                  THEN EndPoll(claimUpdate(sales, r.sale_id, now))
                  ELSE /\ sales' = claimUpdate(sales, r.sale_id, now)
                       /\ cur' = [cur EXCEPT !.id = r.sale_id,
                                             !.attemptCount = r.attempt_count,
                                             !.row = {r}]
                       /\ bpc' = "claimed"
                       /\ InPoll
    /\ BotFrame
    /\ UNCHANGED <<rate, posts, blast>>

\* `rateInfo && rateInfo.remaining !== undefined && rateInfo.remaining <= 1`
neverLow(info) == FALSE
lowRemaining(info) == info.remaining # NULL /\ info.remaining <= 1

\* postAvailable: checkRateLimit, and the deferral when remaining <= 1
BotPreCheck(kept) ==
    LET lr == loadAndRefresh(rate, now)
        next == computeRateReset(lr.state, cur.attemptCount, now)
    IN  /\ bpc = "claimed"
        /\ rate' = lr.stored
        /\ IF lowRemaining(lr.state)
             THEN /\ EndPoll(requeueAfterRateLimit(sales, cur.id, next))
                  /\ Keep(kept, BotCall("checkRateLimit", now, cur.id,
                          RowsOf(sales, cur.id), {lr.state}, {},
                          {RepoCall("requeueAfterRateLimit", cur.id, NULL,
                                    NULL, next)}))
             ELSE /\ bpc' = "produce"
                  /\ InPoll
                  /\ UNCHANGED <<sales, cur, blast>>
        /\ BotFrame
        /\ UNCHANGED posts

CurRow == CHOOSE r \in sales : r.sale_id = cur.id

\* queued.artifacts
Claimed == CHOOSE r \in cur.row : TRUE


\* process(): every producer step that is still needed succeeds
BotProduceOk(kept) ==
    /\ bpc = "produce"
    /\ sales' = produce(sales, cur.id, Claimed, 0)
    /\ Keep(kept, BotCall("process", NULL, cur.id, {CurRow}, {},
                          stagesRun(Claimed, 0), {}))
    /\ cur' = [cur EXCEPT !.row = {}]
    /\ bpc' = "post"
    /\ BotFrame
    /\ InPoll
    /\ UNCHANGED <<rate, posts>>

\* the `break` of postAvailable's catch: the loop is left, pollOnce goes on to
\* its end
continueLoop(rows) ==
    /\ sales' = rows
    /\ cur' = [cur EXCEPT !.id = NULL, !.attemptCount = 0]
    /\ bpc' = "loop"
    /\ InPoll

breakLoop(rows) == EndPoll(rows)

\* process(): a producer step throws; the catch of postAvailable schedules
\* the retry
BotProduceFail(kept, cap) ==
    \E failAt \in Stages :
        /\ bpc = "produce"
        /\ cur.attemptCount < cap
        /\ StageNeeded(Claimed, failAt)
        /\ breakLoop(scheduleRetry(produce(sales, cur.id, Claimed, failAt),
                       cur.id, now + computeBackoffSeconds(cur.attemptCount)))
        /\ Keep(kept, BotCall("process", now, cur.id, {CurRow}, {},
                              stagesRun(Claimed, failAt),
                              {RepoCall("scheduleRetry", cur.id, NULL, NULL,
                                  now + computeBackoffSeconds(cur.attemptCount))}))
        /\ BotFrame
        /\ UNCHANGED <<rate, posts>>

\* publisher.post up to the request. A guard that throws goes through the
\* publisher's catch (onError, rethrow) to the catch of postAvailable
BotPostGuard ==
    LET g == guard(rate, now)
    IN  /\ bpc = "post"
        /\ IF g.threw
             THEN /\ rate' = onError(g.stored, NoRaw, now).next
                  /\ breakLoop(requeueAfterRateLimit(sales, cur.id,
                         computeRateReset([reset |-> g.resetAt, limit |-> g.limit],
                                          cur.attemptCount, now)))
             ELSE /\ rate' = g.stored
                  /\ bpc' = "sending"
                  /\ InPoll
                  /\ UNCHANGED <<sales, cur>>
        /\ BotFrame
        /\ UNCHANGED <<posts, blast>>

\* the platform published the post and answered: onSuccess, post() returns
BotPostOk ==
    \E raw \in BotRaws :
        /\ bpc = "sending"
        /\ rate' = onSuccess(rate, raw, now).next
        /\ posts' = [posts EXCEPT ![cur.id] = @ + 1]
        /\ bpc' = "posted"
        /\ BotFrame
        /\ InPoll
        /\ UNCHANGED <<sales, cur, blast>>

\* process() after post() returned: markPosted, "posted", the loop goes on
BotMarkPosted ==
    /\ bpc = "posted"
    /\ sales' = markPosted(sales, cur.id, TweetId(cur.id, posts[cur.id]),
                           cur.id, now)
    /\ cur' = [cur EXCEPT !.id = NULL, !.attemptCount = 0]
    /\ bpc' = "loop"
    /\ BotFrame
    /\ InPoll
    /\ UNCHANGED <<rate, posts, blast>>

\* the request failed: the publisher's onError; a 429 reaches postAvailable
\* as RateLimitExceededError, anything else as it is
BotPostFail(kept, cap) ==
    \E raw \in BotRaws, limited \in BOOLEAN :
        LET info == onError(rate, raw, now).next
        IN  /\ bpc = "sending"
            /\ rate' = info
            /\ IF limited
                 THEN /\ breakLoop(requeueAfterRateLimit(sales, cur.id,
                             computeRateReset(info, cur.attemptCount, now)))
                      /\ UNCHANGED blast
                 ELSE /\ cur.attemptCount < cap
                      /\ breakLoop(scheduleRetry(sales, cur.id,
                             now + computeBackoffSeconds(cur.attemptCount)))
                      /\ Keep(kept, BotCall("post", now, cur.id, {CurRow},
                             {}, {},
                             {RepoCall("scheduleRetry", cur.id, NULL, NULL,
                                now + computeBackoffSeconds(cur.attemptCount))}))
            /\ BotFrame
            /\ UNCHANGED posts

\* the process dies; what it held in memory is gone
BotCrash ==
    /\ bpc \notin {"down", "off"}
    /\ crashes < MaxCrashes
    /\ crashes' = crashes + 1
    /\ lostAfterPost' = IF bpc = "posted" THEN lostAfterPost \cup {cur.id}
                        ELSE lostAfterPost
    /\ bpc' = "down"
    /\ cur' = NoSale
    /\ polling' = FALSE
    /\ polls' = 0
    /\ UNCHANGED <<now, storeVars, rateVars, posts, blast, meta>>

\* it is started again: bootstrapIfNeeded comes first
BotRestart ==
    /\ bpc = "down"
    /\ bpc' = "boot"
    /\ InPoll
    /\ UNCHANGED <<now, storeVars, rateVars, cur, posts, lostAfterPost, crashes,
                   blast>>

BotNext ==
    \/ Advance
    \/ BotBootstrap(FALSE)
    \/ BotRecover(FALSE)
    \/ BotPollSkip(FALSE)
    \/ BotPollBegin(FALSE)
    \/ BotClaim
    \/ BotPreCheck(FALSE)
    \/ BotProduceOk(FALSE)
    \/ BotProduceFail(FALSE, MaxAttempts)
    \/ BotPostGuard
    \/ BotPostOk
    \/ BotMarkPosted
    \/ BotPostFail(FALSE, MaxAttempts)
    \/ BotCrash
    \/ BotRestart

BotSpec == BotInit /\ [][BotNext]_vars

\* pollOnce keeps being invoked and runs on, time advances, a restart follows
\* a crash, and a producer step or a post that is tried again and again
\* succeeds in the end
BotFairness ==
    /\ WF_vars(Advance)
    /\ WF_vars(BotBootstrap(FALSE))
    /\ WF_vars(BotRecover(FALSE))
    /\ WF_vars(BotPollBegin(FALSE))
    /\ WF_vars(BotClaim)
    /\ WF_vars(BotPreCheck(FALSE))
    /\ SF_vars(BotProduceOk(FALSE))
    /\ WF_vars(BotPostGuard)
    /\ SF_vars(BotPostOk)
    /\ WF_vars(BotMarkPosted)
    /\ WF_vars(BotRestart)

BotFairSpec == BotSpec /\ BotFairness

\* the clock of the workflow runs: the minute is the first retry delay
Wait ==
    /\ \E m \in 1..MaxMinutes : 60 * m > now /\ now' = 60 * m
    /\ UNCHANGED <<storeVars, rateVars, botVars>>

\* the bot over an empty governor row, the history of its calls kept
WorkInit ==
    /\ StoreInitFor(Single)
    /\ RateInitAt(NoState)
    /\ BotInitAt("boot")

WorkNext ==
    \/ Wait
    \/ BotBootstrap(FALSE)
    \/ BotRecover(FALSE)
    \/ BotPollSkip(FALSE)
    \/ BotPollBegin(FALSE)
    \/ BotClaim
    \/ BotPreCheck(TRUE)
    \/ BotProduceOk(TRUE)
    \/ BotProduceFail(TRUE, MaxAttempts)
    \/ BotPostGuard
    \/ BotPostOk
    \/ BotMarkPosted
    \/ BotPostFail(FALSE, MaxAttempts)
    \/ BotCrash
    \/ BotRestart

WorkSpec == WorkInit /\ [][WorkNext]_vars

\* the bot from its first start, the history of its start-up and of its
\* timer's calls kept
LifeNext ==
    \/ BotBootstrap(TRUE)
    \/ BotRecover(FALSE)
    \/ BotPollSkip(TRUE)
    \/ BotPollAbort(TRUE)
    \/ BotPollBegin(TRUE)
    \/ BotClaim
    \/ BotPreCheck(FALSE)
    \/ BotProduceOk(FALSE)
    \/ BotProduceFail(FALSE, MaxAttempts)
    \/ BotPostGuard
    \/ BotPostOk
    \/ BotMarkPosted
    \/ BotPostFail(FALSE, MaxAttempts)
    \/ BotCrash
    \/ BotRestart

LifeSpec == WorkInit /\ [][LifeNext]_vars

\* ------------------------------------------------ pruning of the store
PRUNE_EPOCH == 2000000000

\* a store that has been running: per sale no row, a row posted forty or
\* five days ago, a row seeded forty days ago, or a row still queued
AgedRows(id) ==
    {{}, {NewRow(id, PRUNE_EPOCH - 40 * 86400, 0, 0, "seen")},
         {NewRow(id, PRUNE_EPOCH - 40 * 86400, PRUNE_EPOCH - 40 * 86400, 0,
                 "queued")}}
    \cup {{[NewRow(id, PRUNE_EPOCH - 40 * 86400, PRUNE_EPOCH - 40 * 86400, 0,
                   "posted") EXCEPT !.posted_at = PRUNE_EPOCH - d * 86400]} :
             d \in {40, 5}}

PruneInit ==
    /\ now = PRUNE_EPOCH
    /\ \E f \in [SaleIds -> UNION {AgedRows(id) : id \in SaleIds}] :
          /\ \A id \in SaleIds : f[id] \in AgedRows(id)
          /\ sales = UNION {f[id] : id \in SaleIds}
    /\ CallersIdle(Single)
    /\ RateInitAt(NoState)
    /\ ProcessAt("off", Meta(TRUE, 0))
    /\ posts = [id \in SaleIds |-> 0]

\* the times of the calls: tens of seconds after the epoch, and the same
\* once the hours of the prune interval have passed
PruneTimes ==
    {PRUNE_EPOCH + h * PRUNE_INTERVAL_HOURS * 3600 + 10 * k :
       h \in 0..1, k \in 0..MaxTens}

Elapse ==
    \E t \in PruneTimes :
        /\ t > now
        /\ now' = t
        /\ UNCHANGED <<storeVars, rateVars, botVars>>

\* pruneOld(cutoff, now, minInterval), the retention thirty days or none
PruneOld ==
    \E cutoff \in {now - PRUNE_DAYS * 86400, now},
       minInterval \in {1, PRUNE_INTERVAL_HOURS * 3600} :
        LET pruned == pruneOld(sales, meta, cutoff, now, minInterval)
        IN  /\ sales' = pruned.rows
            /\ meta' = pruned.meta
            /\ blast' = BotCall("pruneOld", now, <<cutoff, minInterval>>,
                                sales, {}, {}, {})
            /\ UNCHANGED <<now, pc, sel, claimAt, held, last, rateVars, bpc,
                           cur, posts, lostAfterPost, crashes, polling, polls>>

PruneNext ==
    \/ Elapse
    \/ PruneOld

PruneSpec == PruneInit /\ [][PruneNext]_vars

\* the retention period of the store runs out
Outlast ==
    /\ now < MaxEras * (PRUNE_DAYS * 86400 + 1)
    /\ now' = now + PRUNE_DAYS * 86400 + 1
    /\ UNCHANGED <<storeVars, rateVars, botVars>>

\* the bot over the retention period, the history of its bootstrap kept
RetainNext ==
    \/ Outlast
    \/ BotBootstrap(TRUE)
    \/ BotRecover(FALSE)
    \/ BotPollSkip(FALSE)
    \/ BotPollBegin(FALSE)
    \/ BotClaim
    \/ BotPreCheck(FALSE)
    \/ BotProduceOk(FALSE)
    \/ BotProduceFail(FALSE, MaxAttempts)
    \/ BotPostGuard
    \/ BotPostOk
    \/ BotMarkPosted
    \/ BotPostFail(FALSE, MaxAttempts)
    \/ BotCrash
    \/ BotRestart

RetainSpec == WorkInit /\ [][RetainNext]_vars

\* the clock runs up to a scheduled retry, or to the second before it
AwaitRetry ==
    \E r \in sales, early \in 0..1 :
        /\ r.next_attempt_at # NULL
        /\ r.next_attempt_at - early > now
        /\ now' = r.next_attempt_at - early
        /\ UNCHANGED <<storeVars, rateVars, botVars>>

\* a store whose bootstrap seeded every sale but the first as seen
RetryInit ==
    /\ now = 0
    /\ sales = seedSeen({}, <<2>>, 0)
    /\ CallersIdle(Single)
    /\ RateInitAt(NoState)
    /\ ProcessAt("recover", Meta(TRUE, 0))
    /\ posts = [id \in SaleIds |-> 0]

\* the bot over a run of failures, the history of its retries kept
RetryNext ==
    \/ AwaitRetry
    \/ BotBootstrap(FALSE)
    \/ BotRecover(FALSE)
    \/ BotPollSkip(FALSE)
    \/ BotPollBegin(FALSE)
    \/ BotClaim
    \/ BotPreCheck(FALSE)
    \/ BotProduceOk(FALSE)
    \/ BotProduceFail(TRUE, MaxFailures)
    \/ BotPostGuard
    \/ BotPostOk
    \/ BotMarkPosted
    \/ BotPostFail(TRUE, MaxFailures)
    \/ BotCrash
    \/ BotRestart

RetrySpec == RetryInit /\ [][RetryNext]_vars

\* ------------------------------------------- recovery over a found store
\* a store file as an earlier run left it: per sale no row, a row waiting in
\* the queue, or a row in `posting` whose posting_at is past the staleness
\* threshold at the start (1000) or not yet (1100)
\* the bot over the retention period, from a store whose second sale was
\* seeded as seen
AgedNext ==
    \/ Outlast
    \/ BotRecover(FALSE)
    \/ BotPollSkip(FALSE)
    \/ BotPollBegin(FALSE)
    \/ BotClaim
    \/ BotPreCheck(FALSE)
    \/ BotProduceOk(FALSE)
    \/ BotProduceFail(FALSE, MaxAttempts)
    \/ BotPostGuard
    \/ BotPostOk
    \/ BotMarkPosted
    \/ BotPostFail(FALSE, MaxAttempts)

AgedSpec == RetryInit /\ [][AgedNext]_vars

\* the pre-check's deferral over the attempts a sale can have behind it and
\* the resets a stored state can report: polls of a store whose one live sale
\* has failed `attempts` times, while the allowance is spent
MaxTries == 14

DeferTimes == {0, 1000}

DeferRates(t) ==
    {[limit |-> LIMIT, remaining |-> left, reset |-> t + ahead,
      lastSpentAt |-> t, storedAt |-> t] :
        left \in 0..RESERVE, ahead \in {1, 10, 7000, 100000}}

DeferInit ==
    /\ now \in DeferTimes
    /\ \E attempts \in 0..MaxTries :
          sales = seedSeen({[NewRow(1, now, now, 0, "queued")
                               EXCEPT !.attempt_count = attempts]},
                           <<2>>, now)
    /\ CallersIdle(Single)
    /\ \E stored \in DeferRates(now) : RateInitAt(stored)
    /\ ProcessAt("idle", Meta(TRUE, 0))
    /\ posts = [id \in SaleIds |-> 0]

DeferNext ==
    \/ BotPollBegin(FALSE)
    \/ BotClaim
    \/ BotPreCheck(TRUE)

DeferSpec == DeferInit /\ [][DeferNext]_vars

FoundRows(id) ==
    {{}, {NewRow(id, 1000, 1000, 0, "queued")}}
    \cup {{[NewRow(id, 1000, 1000, 0, "posting") EXCEPT !.posting_at = p]} :
             p \in {1000, 1100}}

RecoverInit ==
    /\ now = 1200
    /\ \E f \in [SaleIds -> UNION {FoundRows(id) : id \in SaleIds}] :
          /\ \A id \in SaleIds : f[id] \in FoundRows(id)
          /\ sales = UNION {f[id] : id \in SaleIds}
    /\ CallersIdle(Single)
    /\ RateInitAt(NoState)
    /\ ProcessAt("recover", Meta(TRUE, 0))
    /\ posts \in [SaleIds -> 0..1]

RecoverNext ==
    \/ BotBootstrap(FALSE)
    \/ BotRecover(TRUE)
    \/ BotCrash
    \/ BotRestart

RecoverSpec == RecoverInit /\ [][RecoverNext]_vars

\* ------------------------------------------------------ queue properties
OneRowPerSale == \A r, q \in sales : r.sale_id = q.sale_id => r = q

Presented == {last.batch[i] : i \in 1..Len(last.batch)}

\* C4: whatever the sequence of seedSeen and enqueueNew calls and their
\* arguments, the table holds exactly one row per sale id; a call that presents
\* an id already in the table leaves that row as it was, and enqueueNew's
\* return value counts the rows it inserted only.
C4_OneRowPerSale ==
    /\ OneRowPerSale
    /\ last.op \in {"seedSeen", "enqueueNew"} =>
          /\ last.before \subseteq sales
          /\ IdsOf(sales) = IdsOf(last.before) \cup Presented
    /\ last.op = "enqueueNew" =>
          last.val = Cardinality(Presented \ IdsOf(last.before))

\* enqueueNew was given two different ids, one known and one new: it
\* returned 1 and both have a row
C4_Witness ==
    /\ last.op = "enqueueNew"
    /\ Len(last.batch) = 2
    /\ last.batch[1] # last.batch[2]
    /\ last.val = 1
    /\ \E r \in last.before : r.sale_id = last.batch[1] /\ r \in sales
    /\ \E r \in sales : r.sale_id = last.batch[2] /\ r.status = "queued"

\* C1: no sale is held by two claimants at once.
C1_NoDoubleClaim ==
    \A c1, c2 \in DOMAIN held :
        (c1 # c2 /\ held[c1] # NULL) => held[c1] # held[c2]

\* C6: when claimNextReady(now) has returned a sale, that sale's row has
\* status posting and posting_at = now, so that listStalePosting finds it
\* once the cutoff has passed its claim time.
C6_ClaimMarksPosting ==
    (last.op = "claimNextReady" /\ last.val # NULL) =>
        /\ \A r \in RowsOf(sales, last.val) :
              r.status = "posting" /\ r.posting_at = last.t
        /\ RowsOf(sales, last.val) \subseteq listStalePosting(sales, last.t + 1)

\* C9: after scheduleRetry(id, t) on a sale in any in-progress status the row
\* has status queued, next_attempt_at t, posting_at NULL and an attempt_count
\* one above the count before the call.
C9_ScheduleRetryRequeues ==
    last.op = "scheduleRetry" =>
        \A r \in RowsOf(sales, last.id) :
            /\ r.status = "queued"
            /\ r.next_attempt_at = last.t
            /\ r.posting_at = NULL
            /\ \A b \in last.before : r.attempt_count = b.attempt_count + 1

\* C10: requeueAfterRateLimit(id, t) leaves the row as scheduleRetry(id, t)
\* would have left it.
C10_RequeueSameAsRetry ==
    last.op = "requeueAfterRateLimit" =>
        RowsOf(sales, last.id) = scheduleRetry(last.before, last.id, last.t)

\* C11: after markPosted(saleId, tweetId, tweetText, postedAt) the row has
\* status posted, posted_at = postedAt, the given tweet id and text, and
\* posting_at and next_attempt_at both NULL, whatever in-progress state it
\* was in before.
C11_MarkPostedRow ==
    last.op = "markPosted" =>
        /\ RowsOf(sales, last.id) # {}
        /\ \A r \in RowsOf(sales, last.id) :
              /\ r.status = "posted"
              /\ r.posted_at = last.t
              /\ r.tweet_id = last.val
              /\ r.tweet_text = last.id
              /\ r.posting_at = NULL
              /\ r.next_attempt_at = NULL

\* markPosted met a sale in the middle of the workflow whose claim time and
\* next-attempt time were both set
C11_Witness ==
    /\ last.op = "markPosted"
    /\ \E b \in last.before :
          /\ b.status \in WorkflowStatus
          /\ b.posting_at # NULL
          /\ b.next_attempt_at # NULL
    /\ \E r \in RowsOf(sales, last.id) : r.status = "posted"

\* --------------------------------------------------- governor properties
\* remaining as guard reads it from the stored state: the refreshed state's
\* remaining, the limit (17 when none is stored) when nothing is stored
RemainingOf(state) == OrElse(state.remaining, OrElse(state.limit, LIMIT))

RefreshedBefore == loadAndRefresh(rlast.before, rlast.at).state

\* the stored reset has passed at the time of the last call
ResetPassed == Truthy(rlast.before.reset) /\ rlast.at >= rlast.before.reset

\* C2: while no response has carried rate telemetry, the post requests that
\* passed guard and were sent inside one 86400-second window number at most
\* limit - reserve.
C2_NoOverspendWithoutTelemetry ==
    (~telemetrySeen /\ now < WINDOW_SEC) => sentCount <= LIMIT - RESERVE

\* C7: guard raises exactly when the refreshed remaining, taken as the limit
\* when nothing is stored, is at most the reserve.
C7_GuardThrowsIffAtReserve ==
    rlast.op = "guard" =>
        (rlast.threw <=> RemainingOf(RefreshedBefore) <= RESERVE)

\* guard met remaining = reserve + 1 and returned
C7_Witness ==
    /\ rlast.op = "guard"
    /\ load(rlast.before).remaining = RESERVE + 1
    /\ ~ResetPassed
    /\ ~rlast.threw
    /\ ppc = "sending"

\* C8 as stated: once the stored reset has passed, guard and onSuccess see
\* remaining = limit, and guard returns that state without raising.
C8_SelfHealAlwaysPasses ==
    (rlast.op \in {"guard", "onSuccess"} /\ ResetPassed) =>
        /\ rlast.state.remaining = OrElse(rlast.before.limit, LIMIT)
        /\ rlast.op = "guard" => ~rlast.threw

\* C8: once the stored reset has passed, guard and onSuccess see remaining =
\* limit (17 when no limit is stored) without new telemetry, whatever remaining
\* was stored; guard returns that state without raising when that limit is
\* above the reserve.
C8_SelfHeal ==
    (rlast.op \in {"guard", "onSuccess"} /\ ResetPassed) =>
        /\ rlast.state.remaining = OrElse(rlast.before.limit, LIMIT)
        /\ (rlast.op = "guard" /\ rlast.state.remaining > RESERVE) =>
              ~rlast.threw

\* a stored remaining of 0 whose reset has passed: guard returned limit
C8_Witness ==
    /\ rlast.op = "guard"
    /\ ResetPassed
    /\ rlast.before.remaining = 0
    /\ ~rlast.threw
    /\ rlast.state.remaining = LIMIT
    /\ rlast.state.reset = NULL

\* ----------------------------------------------------- process properties
Queued(id) == \E r \in sales : r.sale_id = id /\ r.status \in InProgress

Posted(id) == \E r \in sales : r.sale_id = id /\ r.status = "posted"

\* something stored names a time still ahead: a governor reset, or a sale's
\* next attempt
DeadlinePending ==
    \/ Truthy(rate.reset) /\ rate.reset > now
    \/ \E r \in sales : r.next_attempt_at # NULL /\ r.next_attempt_at > now

\* C3: a sale whose post had succeeded when the process died, before
\* markPosted, is never posted a second time, and once it is recorded as
\* posted it carries the identifier of that first post.
C3_NoSecondPostAfterCrash ==
    \A id \in lostAfterPost :
        /\ posts[id] = 1
        /\ \A r \in RowsOf(sales, id) :
              r.status = "posted" => r.tweet_id = TweetId(id, 1)

\* C5: under the fairness of BotFairSpec a sale in the queue is posted in the
\* end, unless a stored reset or next-attempt time still lies ahead of the
\* clock.
C5_QueuedEventuallyPosted ==
    \A id \in SaleIds : Queued(id) ~> (Posted(id) \/ DeadlinePending)

\* the checkpoint column of producer step k holds a value
Checkpointed(r, k) ==
    CASE k = 1 -> r.html_path # NULL
      [] k = 2 -> r.frames_dir # NULL
      [] k = 3 -> r.video_path # NULL
      [] k = 4 -> r.metadata_json # NULL
      [] OTHER -> FALSE

Producers == 1..4

\* C12: a producer whose checkpoint is persisted is never invoked again:
\* process() skips every step whose checkpoint the row holds and starts at the
\* first step without one.
C12_CheckpointedNeverRedone ==
    blast.op = "process" =>
        \A b \in blast.before :
            /\ \A k \in Producers : Checkpointed(b, k) => k \notin blast.ran
            /\ \A k \in Producers :
                  (~Checkpointed(b, k)
                     /\ \A j \in Producers : j < k => Checkpointed(b, j))
                  => k \in blast.ran

\* a sale that had failed once with its html and frames persisted was claimed
\* again, and process() started at the video step
C12_Witness ==
    /\ blast.op = "process"
    /\ \E b \in blast.before :
          /\ b.attempt_count = 1
          /\ Checkpointed(b, 1) /\ Checkpointed(b, 2) /\ ~Checkpointed(b, 3)
    /\ blast.ran = {3, 4, 5}
    /\ bpc = "post"

\* C13: recoverInFlight answers every stale posting sale with exactly one
\* repository call, and no other sale with any: markPosted with the found
\* post's id and text when the fetched timeline holds a matching post,
\* requeueStale for now + 60 when it holds none
StaleAtCall ==
    {r.sale_id :
       r \in listStalePosting(blast.before, blast.at - STALE_POSTING_SEC)}

C13_RecoverOneCallEach ==
    blast.op = "recoverInFlight" =>
        /\ \A c \in blast.calls : c.id \in StaleAtCall
        /\ \A id \in StaleAtCall :
              /\ Cardinality({c \in blast.calls : c.id = id}) = 1
              /\ IF \E p \in blast.got : TextOf(p) = TextOf(id)
                   THEN /\ \E p \in blast.got :
                              /\ TextOf(p) = TextOf(id)
                              /\ RepoCall("markPosted", id, PostOf(p),
                                          TextOf(p), blast.at) \in blast.calls
                        /\ \A r \in RowsOf(sales, id) :
                              /\ r.status = "posted"
                              /\ \E p \in blast.got :
                                    /\ TextOf(p) = TextOf(id)
                                    /\ r.tweet_id = PostOf(p)
                                    /\ r.tweet_text = TextOf(p)
                   ELSE /\ RepoCall("requeueStale", id, NULL, NULL,
                                    blast.at + 60) \in blast.calls
                        /\ \A r \in RowsOf(sales, id) :
                              /\ r.status = "queued"
                              /\ r.next_attempt_at = blast.at + 60
                              /\ r.posting_at = NULL

C13_Witness ==
    /\ blast.op = "recoverInFlight"
    /\ blast.at = 1200
    /\ StaleAtCall = SaleIds
    /\ \E id \in SaleIds : id \in blast.got
    /\ \E id \in SaleIds : id \notin blast.got
    /\ \E r \in sales : r.status = "posted"
    /\ \E r \in sales : r.status = "queued" /\ r.next_attempt_at = 1260

\* C14: once markInitialized is recorded, bootstrapIfNeeded, in whichever
\* life of the process, fetches no feed, seeds nothing and leaves the store
\* as it found it
C14_BootstrapOnce ==
    (blast.op = "bootstrapIfNeeded" /\ blast.meta.initialized) =>
        /\ blast.got = {}
        /\ blast.calls = {}
        /\ bpc = "recover" => sales = blast.before /\ meta = blast.meta

C14_Witness ==
    /\ blast.op = "bootstrapIfNeeded"
    /\ blast.meta.initialized
    /\ crashes > 0
    /\ bpc = "recover"
    /\ \E r \in sales : r.status = "seen"

\* C16: a pollOnce called while a poll is running returns at once, nothing
\* fetched, enqueued, claimed or remembered; never are two bodies running
C16_OnePollAtATime ==
    [][/\ polls' <= 1
       /\ (polling /\ blast' # blast /\ blast'.op = "pollOnce") =>
             /\ blast'.got = {}
             /\ blast'.calls = {}
             /\ UNCHANGED <<now, storeVars, rateVars, bpc, cur, posts,
                            lostAfterPost, crashes, meta, polling, polls>>]_vars

C16_Witness ==
    /\ blast.op = "pollOnce"
    /\ blast.got = {}
    /\ blast.before # {}
    /\ bpc = "idle"
    /\ ~polling
    /\ polls = 0
    /\ \E r \in sales : r.status = "posted"

\* C17: pruneOld called less than minInterval after the last prune that
\* ran deletes nothing and leaves last_prune_at alone; any other call
\* deletes the terminal rows older than the cutoff and records its time
C17_PruneRespectsInterval ==
    blast.op = "pruneOld" =>
        IF /\ blast.meta.last_prune_at # 0
           /\ blast.at - blast.meta.last_prune_at < blast.id[2]
          THEN sales = blast.before /\ meta = blast.meta
          ELSE /\ sales = deleteOld(blast.before, blast.id[1])
               /\ meta.last_prune_at = blast.at

C17_Witness ==
    /\ blast.op = "pruneOld"
    /\ blast.meta.last_prune_at = PRUNE_EPOCH
    /\ blast.at = PRUNE_EPOCH + 10
    /\ blast.id[2] = PRUNE_INTERVAL_HOURS * 3600
    /\ Cardinality(sales) = 1
    /\ deleteOld(sales, blast.id[1]) = {}
    /\ meta.last_prune_at = PRUNE_EPOCH

\* C15: a sale the bootstrap stored as seen stays seen: its row never takes
\* another status and no post of it is ever published
Seeded == UNION {{b[i] : i \in 1..Len(b)} : b \in blast.got}

C15_SeenIsTerminal ==
    blast.op = "bootstrapIfNeeded" =>
        \A id \in Seeded :
            /\ posts[id] = 0
            /\ \A r \in RowsOf(sales, id) : r.status = "seen"

\* C18: the n-th failure of a sale for a reason other than the rate limit
\* schedules it min(60 * 2^(n-1), 1800) seconds ahead, and a sale is never
\* claimed before the time it was scheduled for
BackoffAfter(n) == Min(60 * 2^(n - 1), 1800)

C18_BackoffDoubles ==
    /\ \A c \in blast.calls : c.op = "scheduleRetry" =>
          \A b \in blast.before :
              /\ c.t = blast.at + BackoffAfter(b.attempt_count + 1)
              /\ \A r \in RowsOf(sales, c.id) :
                    (r.next_attempt_at # NULL /\ r.status # "posted" /\
                     r.attempt_count = b.attempt_count + 1)
                        => r.next_attempt_at = c.t
    /\ \A r \in sales :
          (r.posting_at # NULL /\ r.next_attempt_at # NULL)
              => r.next_attempt_at <= r.posting_at

C18_Witness ==
    /\ \E c \in blast.calls :
          /\ c.op = "scheduleRetry"
          /\ c.t - blast.at = 1800
          /\ \E b \in blast.before : b.attempt_count = 5
    /\ \E r \in sales :
          r.attempt_count = 6 /\ r.next_attempt_at = now + 1

\* C19: enqueueNew with a cooldown stores a new sale as seen when a sale of
\* the same token was posted inside the cooldown window before seenAt
C19_CooldownMarksSeen ==
    last.op = "enqueueNew" =>
        \A i \in 1..Len(last.batch) :
            LET id == last.batch[i]
            IN  (/\ RowsOf(last.before, id) = {}
                 /\ \E q \in last.before :
                       /\ q.status = "posted"
                       /\ TokenOf(q.sale_id) = TokenOf(id)
                       /\ q.posted_at <= last.t
                       /\ q.posted_at > last.t - TOKEN_COOLDOWN_HOURS * 3600)
                    => \A r \in RowsOf(sales, id) : r.status = "seen"

\* C20: the resetAt of the error guard raises is the stored reset plus the
\* 60-second buffer while that reset is in the future, and otherwise
\* max(lastSpentAt, now) + the fallback slot + 60; never is it earlier than
\* the stored reset + 60
StoredBefore == load(rlast.before)

C20_GuardResetAt ==
    (rlast.op = "guard" /\ rlast.threw) =>
        /\ IF StoredBefore.reset # NULL /\ StoredBefore.reset > rlast.at
             THEN rlast.resetAt = StoredBefore.reset + 60
             ELSE rlast.resetAt =
                    Max(OrElse(StoredBefore.lastSpentAt, rlast.at), rlast.at)
                    + FALLBACK_SLOT_SEC + 60
        /\ StoredBefore.reset # NULL =>
              rlast.resetAt >= StoredBefore.reset + 60

C20_Witness ==
    /\ rlast.op = "guard"
    /\ rlast.threw
    /\ StoredBefore.remaining = RESERVE
    /\ StoredBefore.reset # NULL
    /\ StoredBefore.reset > rlast.at
    /\ rlast.resetAt = StoredBefore.reset + RESET_BUFFER_SEC

\* C21: under the fairness of BotFairSpec an allowance the snapshot reports
\* at or below the reserve is reported above it in the end, unless a stored
\* reset still lies ahead of the clock
SnapshotBlocked ==
    LET state == loadAndRefresh(rate, now).state
    IN  state.remaining # NULL /\ state.remaining <= RESERVE

C21_BlockedAllowanceRecovers ==
    SnapshotBlocked ~>
        (~SnapshotBlocked \/ (Truthy(rate.reset) /\ rate.reset > now))

\* C22: a sale whose processing failed is, until it is claimed again, in
\* status queued with a next attempt later than the time of the failure
C22_FailureRequeues ==
    \A c \in blast.calls : c.op = "scheduleRetry" =>
        \A b \in blast.before :
            /\ RowsOf(sales, c.id) # {}
            /\ \A r \in RowsOf(sales, c.id) :
                  (r.posting_at = NULL /\
                   r.attempt_count = b.attempt_count + 1)
                      => /\ r.status = "queued"
                         /\ r.next_attempt_at # NULL
                         /\ r.next_attempt_at > blast.at

\* C23: when the snapshot taken for a claimed sale reports an allowance at or
\* below the reserve, the step that follows runs no producer and no publisher
\* call, asks requeueAfterRateLimit for the sale with the time computeRateReset
\* gives, and ends the poll, so that nothing more is claimed in it
C23_LowAllowanceDefers ==
    [][(bpc = "claimed" /\ SnapshotBlocked /\ bpc' \notin {"claimed", "down"})
            => LET state == loadAndRefresh(rate, now).state
               IN  /\ bpc' = "idle"
                   /\ ~polling'
                   /\ posts' = posts
                   /\ \A r \in RowsOf(sales', cur.id) :
                         r.status = CurRow.status
                   /\ blast'.op = "checkRateLimit"
                   /\ blast'.id = cur.id
                   /\ blast'.ran = {}
                   /\ blast'.calls =
                         {RepoCall("requeueAfterRateLimit", cur.id, NULL, NULL,
                                   computeRateReset(state, cur.attemptCount,
                                                    now))}]_vars

C23_Deferred ==
    /\ blast.op = "checkRateLimit"
    /\ bpc = "idle"
    /\ \E c \in blast.calls : c.op = "requeueAfterRateLimit" /\ c.t > blast.at
    /\ \E state \in blast.got : state.remaining <= RESERVE

\* C24: the step in which the processing of the claimed sale fails, by a
\* producer, by the guard or by the request, ends the poll: the sale is
\* released unposted, and nothing is claimed or processed until a later poll
Processing == bpc \in {"produce", "post", "sending"}

FailedStep ==
    /\ Processing
    /\ \E r \in RowsOf(sales', cur.id) :
          r.status # "posted" /\ r.posting_at = NULL

C24_FailureEndsPoll ==
    [][FailedStep => (bpc' = "idle" /\ ~polling' /\ cur' = NoSale)]_vars

C24_OthersWait ==
    /\ blast.op = "process"
    /\ blast.at = now
    /\ \E c \in blast.calls : c.op = "scheduleRetry"
    /\ bpc = "idle"
    /\ \E r \in sales :
          r.sale_id # blast.id /\ Ready(r, now) /\ r.posting_at = NULL

\* C25 as stated: the allowance is checked before each claim, so no sale is
\* claimed while the snapshot is at or below the reserve
C25_CheckedBeforeClaim ==
    [][(bpc = "loop" /\ bpc' = "claimed") => ~SnapshotBlocked]_vars

\* C25: the allowance is checked once for every claimed sale, after the claim
\* and before its processing: processing starts only from the check of a sale
\* just claimed and only while the snapshot is above the reserve, and the
\* steps of processing touch no sale but the claimed one
StatusMoved(id) ==
    \E r \in RowsOf(sales, id), q \in RowsOf(sales', id) : r.status # q.status

C25_CheckedBeforeProcess ==
    [][/\ (bpc' = "claimed" /\ bpc # "claimed") => bpc = "loop"
       /\ (bpc' = "produce" /\ bpc # "produce")
             => (bpc = "claimed" /\ ~SnapshotBlocked)
       /\ \A id \in SaleIds :
             (Processing /\ (StatusMoved(id) \/ posts'[id] # posts[id]))
                 => id = cur.id]_vars

C25_ClaimedWhileBlocked ==
    /\ bpc = "claimed"
    /\ SnapshotBlocked
    /\ \E r \in RowsOf(sales, cur.id) : r.posting_at = now

\* C26: the claim of postAvailable finds nothing exactly when no sale is ready,
\* otherwise it takes a ready sale of the smallest created_at; and a sale the
\* pre-check deferred through requeueAfterRateLimit is not claimed before the
\* time it was deferred to
C26_DeferredNotClaimedEarly ==
    [][(bpc = "loop" /\ bpc' \notin {"loop", "down"})
          => /\ bpc' = "idle" <=> (\A r \in sales : ~Ready(r, now))
             /\ bpc' = "claimed"
                   => /\ \A r \in cur'.row :
                            /\ Ready(r, now)
                            /\ \A q \in sales :
                                  Ready(q, now) => r.created_at <= q.created_at
                      /\ (blast.op = "checkRateLimit" /\ blast.id = cur'.id)
                            => \A c \in blast.calls : c.t <= now]_vars

\* C27: a step changes the status of a sale only forward in the order queued,
\* fetching_html, capturing_frames, rendering_video, uploading_media, posting,
\* posted, or from an in-progress status to queued or failed; and a run of
\* process() writes no status that lies behind the status the sale was
\* claimed with
StatusOrder ==
    <<"queued", "fetching_html", "capturing_frames", "rendering_video",
      "uploading_media", "posting", "posted">>

Rank(status) == CHOOSE i \in 1..Len(StatusOrder) : StatusOrder[i] = status

Ordered(status) == \E i \in 1..Len(StatusOrder) : StatusOrder[i] = status

Forward(from, to) ==
    \/ from = to
    \/ Ordered(from) /\ Ordered(to) /\ Rank(from) < Rank(to)
    \/ from \in InProgress /\ to \in {"queued", "failed"}

C27_StatusMovesForward ==
    [][/\ \A r \in sales, q \in sales' :
             r.sale_id = q.sale_id => Forward(r.status, q.status)
       /\ (blast' # blast /\ blast'.op = "process")
             => \A b \in blast'.before, k \in blast'.ran :
                    StageStart(b, k) # b
                        => Forward(b.status, StageStart(b, k).status)
      ]_vars

C27_Resumed ==
    /\ blast.op = "process"
    /\ \E b \in blast.before : b.status = "capturing_frames"
    /\ blast.ran # {}
    /\ \E r \in RowsOf(sales, blast.id) : r.status = "uploading_media"

C29_FreshMediaReused ==
    (blast.op = "process" /\ now < 24 * 3600)
        => \A b \in blast.before : b.media_id # NULL => 5 \notin blast.ran

\* C30: for a reported reset that lies ahead, computeRateReset gives the later
\* of now + min(2^attempts, cap) and reset + buffer, a time neither before the
\* reset nor before now + min(2^attempts, cap)
C30_LaterOfBackoffAndReset ==
    blast.op = "checkRateLimit" =>
        \A info \in blast.got, b \in blast.before, c \in blast.calls :
            (info.reset # NULL /\ info.reset > blast.at)
                => LET spaced == blast.at
                                   + Min(Pow2(b.attempt_count), MAX_BASE_DELAY)
                   IN  /\ c.t = Max(spaced, info.reset + RATE_RESET_BUFFER)
                       /\ c.t >= info.reset
                       /\ c.t >= spaced

C30_CappedSpacingWins ==
    /\ blast.op = "checkRateLimit"
    /\ \E info \in blast.got, b \in blast.before, c \in blast.calls :
          /\ info.reset > blast.at
          /\ Pow2(b.attempt_count) > MAX_BASE_DELAY
          /\ c.t = blast.at + MAX_BASE_DELAY
          /\ c.t > info.reset + RATE_RESET_BUFFER

\* C31 as stated: onError without rate fields stores remaining 0 and a reset
\* of now + FALLBACK_SLOT_SEC
C31_ResetIsOneSlotAhead ==
    (rlast.op = "onError" /\ rlast.raw = NoRaw) =>
        /\ rate.remaining = 0
        /\ rate.reset = rlast.at + FALLBACK_SLOT_SEC

\* C31: onError without rate fields stores remaining 0 and a reset ahead of
\* the clock: the stored reset where one lies ahead, now + FALLBACK_SLOT_SEC
\* otherwise; and while a state of remaining 0 has its reset ahead, guard
\* raises and the publisher's catch leaves remaining 0 and that reset stored
SpentUntilReset ==
    /\ ppc = "idle"
    /\ rate.remaining = 0
    /\ Truthy(rate.reset)
    /\ now < rate.reset

C31_UnknownFailureBlocks ==
    /\ (rlast.op = "onError" /\ rlast.raw = NoRaw) =>
          /\ rate.remaining = 0
          /\ rate.reset =
                IF Truthy(RefreshedBefore.reset)
                     /\ RefreshedBefore.reset > rlast.at
                  THEN RefreshedBefore.reset
                  ELSE rlast.at + FALLBACK_SLOT_SEC
          /\ rate.reset > rlast.at
    /\ SpentUntilReset =>
          LET g == guard(rate, now)
              caught == onError(g.stored, NoRaw, now).next
          IN  /\ g.threw
              /\ caught.remaining = 0
              /\ caught.reset = rate.reset

C31_KnownResetKept ==
    /\ rlast.op = "onError"
    /\ rlast.raw = NoRaw
    /\ rlast.before.remaining > RESERVE
    /\ rate.reset < rlast.at + FALLBACK_SLOT_SEC
    /\ SpentUntilReset

\* C32: the remaining the governor stores and the remaining it hands to its
\* callers are never below zero, whatever the rate fields of the responses
C32_RemainingNeverNegative ==
    /\ rate.remaining # NULL => rate.remaining >= 0
    /\ rlast.state.remaining # NULL => rlast.state.remaining >= 0

\* C33: a row leaves the table only in the step that ends a poll with a prune
\* that ran, and only if its status is posted, failed or seen and its
\* completion time lies before that prune's cutoff; a row in queued or another
\* in-progress status is never deleted
Completion(r) == OrElse(r.posted_at, OrElse(r.seen_at, r.created_at))

C33_OnlyPruneDeletes ==
    [][\A r \in sales :
          RowsOf(sales', r.sale_id) = {}
              => /\ r.status \in {"posted", "failed", "seen"}
                 /\ polling /\ ~polling'
                 /\ Completion(r) < cur.pollNow - PRUNE_DAYS * 24 * 3600
                 /\ meta'.last_prune_at = cur.pollNow]_vars

C33_OldQueuedSurvives ==
    /\ meta.last_prune_at > PRUNE_DAYS * 24 * 3600
    /\ \E r \in sales :
          /\ r.status \in InProgress
          /\ Completion(r) < meta.last_prune_at - PRUNE_DAYS * 24 * 3600
    /\ \E id \in SaleIds : RowsOf(sales, id) = {}

\* C34: the read and the conditional write of claimNextReady are one
\* indivisible step: the table does not change under a claimant that has read
\* and not yet written, and a claim that returns nothing met no ready sale
C34_ClaimIndivisible ==
    /\ \A c \in DOMAIN pc :
          pc[c] = "selected" =>
              \E r \in claimSelect(sales, claimAt[c]) : r.sale_id = sel[c]
    /\ (last.op = "claimNextReady" /\ last.val = NULL) =>
          claimSelect(sales, last.t) = {}

\* C35: a recoverInFlight that met stale sales and could not read the
\* timeline (it was handed no post while the account has posts) leaves
\* the store as it found it: no stale sale is marked posted or requeued
C35_UnreadTimelineAborts ==
    (blast.op = "recoverInFlight" /\ StaleAtCall # {}
        /\ blast.got = {} /\ Timeline # {})
        => /\ blast.calls = {}
           /\ sales = blast.before

\* C36: after a pollOnce that ended by the exception of its feed fetch the
\* flag is clear, and the pollOnce called next runs its body: it fetches the
\* feed instead of returning at once
Aborted ==
    blast.op = "pollOnce" /\ blast.got = {} /\ blast.calls = {"fetchRecent"}

MarkedPosted(id) == posts[id] > 0 /\ ~(bpc = "posted" /\ cur.id = id)

C37_PostedIsAbsorbing ==
    \A id \in SaleIds :
        MarkedPosted(id) =>
            /\ \A r \in RowsOf(sales, id) : r.status = "posted"
            /\ cur.id # id
            /\ posts[id] = 1

\* C38: recoverInFlight marks a stale sale posted only with a post the
\* publisher made for that sale, and no post is given to two sales
C38_OwnPostOnly ==
    blast.op = "recoverInFlight" =>
        /\ \A c \in blast.calls :
              c.op = "markPosted"
                  => (posts[c.id] > 0 /\ c.tweetId = TweetId(c.id, posts[c.id]))
        /\ \A c, d \in blast.calls :
              (c.op = "markPosted" /\ d.op = "markPosted"
                 /\ c.tweetId = d.tweetId) => c.id = d.id

\* C39: while the allowance is blocked and the stored reset is still ahead,
\* a blocked guard call that follows a blocked guard call writes nothing to
\* the stored state and raises the resetAt the call before it raised
GuardAgain ==
    /\ rlast.op = "guard"
    /\ rlast.threw
    /\ rlast'.op = "guard"
    /\ rlast'.threw
    /\ load(rlast'.before).reset # NULL
    /\ load(rlast'.before).reset > rlast'.at

C39_BlockedGuardIdempotent ==
    [][GuardAgain =>
          /\ guard(rlast'.before, rlast'.at).stored = rlast'.before
          /\ rlast'.resetAt = rlast.resetAt]_vars

\* the stored state alone: the repeated call saves nothing
C39_RepeatSavesNothing ==
    [][GuardAgain => guard(rlast'.before, rlast'.at).stored = rlast'.before]_vars

\* C40: within one pollOnce the claim loop is bounded: a claim takes a sale
\* that is not posted yet, the loop is entered again only from a sale that
\* was just marked posted, and no sale leaves the posted status while the
\* poll runs; so the loop makes at most (sales in progress + 1) claims
LoopBody == {"claimed", "produce", "post", "sending", "posted"}

Unposted(rows) == {r.sale_id : r \in {q \in rows : q.status \in InProgress}}

====
